---- MODULE Spec2Model ----
(***************************************************************************)
(* Model of the automation engine of                                       *)
(* src/src/services/automationEngine.service.ts: the trigger and action    *)
(* registries, executeAutomation (one run of one automation) and           *)
(* triggerByEvent (the fan-out of one event over the active automations).  *)
(* Every await of the source is a step boundary: a run is a process whose  *)
(* pc names the await it is suspended at.                                  *)
(***************************************************************************)
EXTENDS Integers, Sequences, FiniteSets, TLC

(* ------------------------------ bounds -------------------------------- *)
MaxRuns == 2          \* executeAutomation calls (direct or launched) per behaviour
MaxCalls == 1         \* of which direct calls by an outside caller
MaxDispatches == 1    \* triggerByEvent calls per behaviour
MaxCrudOps == 1       \* owner edits (activate, deactivate, edit, delete) per behaviour

AutomationIds == {1, 2}
EditedIds == {1}      \* the automations the owner edits
MissingId == 3        \* an id no stored automation has
NoContact == 0        \* triggerData without a contactId

(* --------------------------- nodes and payloads ----------------------- *)
NoConfig == [listId |-> "none", tag |-> "none", delay |-> 0, delayUnit |-> "none"]

TriggerNode(id, pos, service, listId) ==
    [id |-> id, type |-> "trigger", service |-> service, position |-> pos,
     config |-> [NoConfig EXCEPT !.listId = listId]]

DelayNode(id, pos, amount, unit) ==
    [id |-> id, type |-> "delay", service |-> "delay", position |-> pos,
     config |-> [NoConfig EXCEPT !.delay = amount, !.delayUnit = unit]]

ActionNode(id, pos, service, tag) ==
    [id |-> id, type |-> "action", service |-> service, position |-> pos,
     config |-> [NoConfig EXCEPT !.tag = tag]]

\* Stored node lists, in storage order (not position order).
TagPipeline ==
    << TriggerNode(1, 1, "keplero_contact_created", "none"),
       ActionNode(2, 2, "add_tag", "vip") >>

ShuffledPipeline ==
    << ActionNode(4, 4, "send_email", "none"),
       ActionNode(3, 3, "keplero_send_sms", "none"),
       TriggerNode(1, 1, "keplero_contact_created", "none"),
       ActionNode(2, 2, "add_tag", "vip") >>

DelayPipeline ==
    << TriggerNode(1, 1, "keplero_contact_moved", "L1"),
       ActionNode(3, 3, "send_email", "none"),
       DelayNode(2, 2, 1, "minutes") >>

NoTriggerPipeline ==
    << ActionNode(1, 1, "save_to_crm", "none") >>

NodeLists == {TagPipeline, ShuffledPipeline, DelayPipeline, NoTriggerPipeline}

\* Further node lists: delays in hours and days, a trigger kind and an action
\* kind that are not registered, and an HTTP call followed by an action.
HoursDelayPipeline ==
    << TriggerNode(1, 1, "keplero_contact_created", "none"),
       DelayNode(2, 2, 2, "hours"),
       ActionNode(3, 3, "send_email", "none") >>

DaysDelayPipeline ==
    << TriggerNode(1, 1, "keplero_contact_created", "none"),
       DelayNode(2, 2, 25, "days"),
       ActionNode(3, 3, "send_email", "none") >>

UnknownTriggerPipeline ==
    << TriggerNode(1, 1, "unknown_trigger", "none"),
       ActionNode(2, 2, "save_to_crm", "none") >>

UnknownActionPipeline ==
    << TriggerNode(1, 1, "keplero_contact_created", "none"),
       ActionNode(2, 2, "add_tag", "vip"),
       ActionNode(3, 3, "unknown_action", "none") >>

ApiCallPipeline ==
    << TriggerNode(1, 1, "keplero_contact_created", "none"),
       ActionNode(2, 2, "keplero_api_call", "none"),
       ActionNode(3, 3, "add_tag", "vip") >>

VariantLists ==
    {DelayPipeline, HoursDelayPipeline, DaysDelayPipeline, NoTriggerPipeline,
     UnknownTriggerPipeline, UnknownActionPipeline, ApiCallPipeline}

\* Event payloads; contact 1 has a phone number, contact 2 has none.
EventData ==
    { [event |-> "contact_created", contactId |-> 1, listId |-> "none"],
      [event |-> "contact_created", contactId |-> 2, listId |-> "none"],
      [event |-> "contact_moved", contactId |-> 1, listId |-> "L1"] }

\* A call made without a payload (eventData null or undefined).
NullData == [event |-> "null", contactId |-> NoContact, listId |-> "none"]

\* The payloads triggerByEvent is called with.
DispatchData == EventData \cup {NullData}

(* -------------------------------- clock ------------------------------- *)
VARIABLE now       \* the clock (Date.now() and the timers), in seconds

(* ------------------------------ registries ---------------------------- *)
RegisteredTriggers ==
    {"keplero_contact_created", "keplero_contact_deleted", "keplero_contact_moved",
     "cart_abandoned"}

RegisteredActions ==
    {"add_tag", "keplero_send_sms", "keplero_api_call", "keplero_create_contact",
     "send_email", "save_to_crm"}

\* `Trigger handler not found: ${service}`, `Action handler not found: ${service}`
HandlerNotFoundMessage(type, service) ==
    IF type = "trigger" THEN "Trigger handler not found: " \o service
    ELSE "Action handler not found: " \o service

\* triggers.get(service).validate(config, data)
TriggerValidate(service, config, data) ==
    CASE service = "keplero_contact_created" -> data.event = "contact_created"
      [] service = "keplero_contact_deleted" -> data.event = "contact_deleted"
      [] service = "keplero_contact_moved" ->
            /\ data.event = "contact_moved"
            /\ (config.listId = "none" \/ data.listId = config.listId)
      [] service = "cart_abandoned" ->
            \* (Date.now() - data.abandonedAt) / (1000 * 60) >= config.timeThreshold
            now - data.abandonedAt >= 60 * config.timeThreshold
      [] OTHER -> FALSE

\* Does validate(config, data) raise? Every handler reads a property of data,
\* which raises a TypeError when there is no payload.
TriggerValidateRaises(service, config, data) == data = NullData

\* Does actions.get(service).execute(config, triggerData) raise, given the contacts?
ActionRaises(service, config, data, contacts) ==
    CASE service = "keplero_send_sms" ->
            \/ data.contactId = NoContact
            \/ data.contactId \notin DOMAIN contacts
            \/ ~contacts[data.contactId].phone
      [] OTHER -> FALSE

\* The message of the error keplero_send_sms raises.
ActionErrorMessage(service, config, data) ==
    IF data.contactId = NoContact THEN "Contact ID is required for SMS"
    ELSE "Contact not found or phone number missing"

\* The value the handler returns when it does not raise.
ActionResult(service, config, data, contacts) ==
    CASE service = "add_tag" ->
            IF data.contactId \in DOMAIN contacts
            THEN [flag |-> TRUE, value |-> config.tag]
            ELSE [flag |-> FALSE, value |-> "none"]
      [] service = "keplero_send_sms" -> [flag |-> TRUE, value |-> "sms"]
      [] service = "send_email" -> [flag |-> TRUE, value |-> "sent"]
      [] OTHER -> [flag |-> TRUE, value |-> "saved"]

\* The outcomes of the handler's HTTP request: keplero_api_call is the modelled
\* handler that makes one, and the request succeeds (TRUE) or fails (FALSE).
NetworkOutcomes(service) == IF service = "keplero_api_call" THEN BOOLEAN ELSE {TRUE}

\* keplero_api_call: try { await axios(...); return {success: true, ...} }
\*                   catch (error) { return {success: false, ...} }
ApiCallResult(net) == [flag |-> net, value |-> "http"]

\* Mutant: add_tag reports the tag without storing it.
ActionEffectNone(service, config, data, contacts) == contacts

\* The handler's side effect on the contacts (add_tag pushes config.tag).
ActionEffect(service, config, data, contacts) ==
    IF service = "add_tag" /\ data.contactId \in DOMAIN contacts
    THEN [contacts EXCEPT ![data.contactId].tags = Append(@, config.tag)]
    ELSE contacts

(* -------------------------------- delays ------------------------------ *)
\* Time is counted in whole seconds: every multiplier of the source is a
\* multiple of 1000 ms, and a count of milliseconds above 2^31 - 1 is exactly
\* what has to be told apart here.
\* const ms = amount * (multipliers[unit] || 1000), divided by 1000.
DelaySeconds(amount, unit) ==
    amount * (CASE unit = "minutes" -> 60
                [] unit = "hours" -> 60 * 60
                [] unit = "days" -> 24 * 60 * 60
                [] OTHER -> 1)

\* The largest delay a timer takes: a signed 32-bit number of milliseconds.
TimeoutMax == 2147483647

\* setTimeout(resolve, ms): a delay above TimeoutMax or below 1 is set to 1 ms,
\* which is 0 whole seconds; 1000 * seconds > TimeoutMax is written without the
\* product.
TimerDelay(seconds) ==
    IF seconds > TimeoutMax \div 1000 \/ seconds < 1 THEN 0 ELSE seconds

(* ------------------------------- sorting ------------------------------ *)
\* Mutant: the comparator is reversed, (a, b) => b.position - a.position.
RECURSIVE InsertByPositionDescending(_, _)
InsertByPositionDescending(sorted, n) ==
    IF sorted = << >> THEN << n >>
    ELSE IF sorted[Len(sorted)].position >= n.position THEN Append(sorted, n)
    ELSE Append(InsertByPositionDescending(SubSeq(sorted, 1, Len(sorted) - 1), n),
                sorted[Len(sorted)])

\* automation.nodes.sort((a, b) => a.position - b.position): a stable sort.
RECURSIVE InsertByPosition(_, _)
InsertByPosition(sorted, n) ==
    IF sorted = << >> THEN << n >>
    ELSE IF sorted[Len(sorted)].position <= n.position THEN Append(sorted, n)
    ELSE Append(InsertByPosition(SubSeq(sorted, 1, Len(sorted) - 1), n), sorted[Len(sorted)])

\* Mutant: the nodes are executed in storage order.
NoSort(nodes) == nodes

RECURSIVE SortByPosition(_)
SortByPosition(nodes) ==
    IF nodes = << >> THEN << >>
    ELSE InsertByPosition(SortByPosition(SubSeq(nodes, 1, Len(nodes) - 1)), nodes[Len(nodes)])

\* nodes.find(n => n.type === 'trigger'): index of the first trigger node, 0 if none.
RECURSIVE FindTriggerFrom(_, _)
FindTriggerFrom(nodes, i) ==
    IF i > Len(nodes) THEN 0
    ELSE IF nodes[i].type = "trigger" THEN i
    ELSE FindTriggerFrom(nodes, i + 1)

FindTrigger(nodes) == FindTriggerFrom(nodes, 1)

(* -------------------------------- state ------------------------------- *)
VARIABLES
    automations,   \* the Automation collection: id -> document
    contacts,      \* the Customer collection: contact id -> tags
    executions,    \* the AutomationExecution collection, in creation order
    runs,          \* the executeAutomation calls made so far
    dispatches,    \* the triggerByEvent calls made so far
    crudOps        \* number of owner edits made so far

vars == << automations, contacts, executions, runs, dispatches, crudOps, now >>

NoDoc == [exists |-> FALSE, isActive |-> FALSE, name |-> "none", nodes |-> << >>, executionCount |-> 0]

\* The stored automations: automation 1 is any of the node lists, active or not;
\* automation 2 is the tag pipeline, active.
Init ==
    /\ automations \in
          { [a \in AutomationIds |->
                [exists |-> TRUE, isActive |-> (a = 2 \/ act),
                 name |-> IF a = 2 THEN "A2" ELSE "A1",
                 nodes |-> IF a = 2 THEN TagPipeline ELSE nl, executionCount |-> 0]] :
            act \in BOOLEAN, nl \in NodeLists }
    /\ contacts = [c \in {1, 2} |-> [phone |-> (c = 1), tags |-> << >>]]
    /\ executions = << >>
    /\ runs = << >>
    /\ dispatches = << >>
    /\ crudOps = 0
    /\ now = 0

\* The same store with automation 1 drawn from the further node lists.
InitVariants ==
    /\ automations \in
          { [a \in AutomationIds |->
                [exists |-> TRUE, isActive |-> (a = 2 \/ act),
                 name |-> IF a = 2 THEN "A2" ELSE "A1",
                 nodes |-> IF a = 2 THEN TagPipeline ELSE nl, executionCount |-> 0]] :
            act \in BOOLEAN, nl \in VariantLists }
    /\ contacts = [c \in {1, 2} |-> [phone |-> (c = 1), tags |-> << >>]]
    /\ executions = << >>
    /\ runs = << >>
    /\ dispatches = << >>
    /\ crudOps = 0
    /\ now = 0

\* Automation.findById(id): the stored document, or none.
FindById(id) == IF id \in AutomationIds THEN automations[id] ELSE NoDoc

\* A fresh call of executeAutomation(automationId, triggerData), suspended at findById.
NewRun(id, data, launcher, parent) ==
    [automationId |-> id, triggerData |-> data, launcher |-> launcher, parent |-> parent,
     pc |-> "load", automation |-> NoDoc, execution |-> 0, sortedNodes |-> << >>,
     idx |-> 0, actionResults |-> << >>, error |-> "none",
     outcome |-> "pending", sink |-> "none", log |-> << >>,
     delayBegan |-> 0, wakeAt |-> 0, waits |-> << >>, validated |-> "none",
     report |-> "none"]

\* Mutant: the launched promise is awaited without a .catch handler.
RejectionSinkCaller(launcher) == "caller"

\* Where a rejection of executeAutomation is delivered: triggerByEvent attaches
\* .catch(err => console.error(...)) to the promise; a direct caller awaits it.
RejectionSink(launcher) == IF launcher = "dispatch" THEN "log" ELSE "caller"

\* A rejection that reached the awaiting caller: for a run awaited by a
\* dispatch call this aborts that call.
Deliver(r, sink) ==
    IF sink = "caller" /\ runs[r].launcher = "dispatch"
    THEN dispatches' = [dispatches EXCEPT ![runs[r].parent].pc = "raised"]
    ELSE UNCHANGED dispatches

(* --------------------------- executeAutomation ------------------------ *)
\* executeAutomation(automationId, triggerData) called by an outside caller.
ExecuteCall(id, data) ==
    /\ Len(runs) < MaxRuns
    /\ Cardinality({r \in 1..Len(runs) : runs[r].launcher = "direct"}) < MaxCalls
    /\ runs' = Append(runs, NewRun(id, data, "direct", 0))
    /\ UNCHANGED << automations, contacts, executions, dispatches, crudOps, now >>

\* Mutant: the activation check is dropped, if (!automation).
NotFoundOnly(doc) == ~doc.exists

\* if (!automation || !automation.isActive)
NotFoundOrInactive(doc) == ~doc.exists \/ ~doc.isActive

\* const automation = await Automation.findById(automationId);
\* if (!automation || !automation.isActive) throw new AppError(...)
Load(r) ==
    /\ runs[r].pc = "load"
    /\ LET doc == FindById(runs[r].automationId) IN
       IF NotFoundOrInactive(doc)
       THEN /\ runs' = [runs EXCEPT ![r].pc = "done", ![r].outcome = "rejected",
                                    ![r].automation = doc,
                                    ![r].error = "Automation not found or inactive",
                                    ![r].sink = RejectionSink(runs[r].launcher)]
            /\ Deliver(r, RejectionSink(runs[r].launcher))
       ELSE /\ runs' = [runs EXCEPT ![r].pc = "create", ![r].automation = doc]
            /\ UNCHANGED dispatches
    /\ UNCHANGED << automations, contacts, executions, crudOps, now >>

\* Mutant: the record is created already failed, before anything ran.
CreateFailed(r) ==
    /\ runs[r].pc = "create"
    /\ executions' = Append(executions,
            [automationId |-> runs[r].automationId, status |-> "failed",
             triggerData |-> runs[r].triggerData, actionData |-> << >>,
             errorMessage |-> "none", run |-> r,
             activeAtCreate |-> FindById(runs[r].automationId).isActive])
    /\ runs' = [runs EXCEPT ![r].pc = "validate", ![r].execution = Len(executions) + 1]
    /\ UNCHANGED << automations, contacts, dispatches, crudOps, now >>

\* const execution = await AutomationExecution.create({automationId, status: 'pending', triggerData})
Create(r) ==
    /\ runs[r].pc = "create"
    /\ executions' = Append(executions,
            [automationId |-> runs[r].automationId, status |-> "pending",
             triggerData |-> runs[r].triggerData, actionData |-> << >>,
             errorMessage |-> "none", run |-> r,
             activeAtCreate |-> FindById(runs[r].automationId).isActive])
    /\ runs' = [runs EXCEPT ![r].pc = "validate", ![r].execution = Len(executions) + 1]
    /\ UNCHANGED << automations, contacts, dispatches, crudOps, now >>

\* Mutant: the loop reads the stored node list again at every node.
RECURSIVE AdvanceReloads(_, _)
AdvanceReloads(run, i) ==
    LET stored == automations[run.automationId]
        cur == IF stored.exists
               THEN [run EXCEPT !.sortedNodes = SortByPosition(stored.nodes)]
               ELSE run
    IN IF i > Len(cur.sortedNodes) THEN [cur EXCEPT !.idx = i, !.pc = "saveSuccess"]
       ELSE LET n == cur.sortedNodes[i] IN
            IF n.type = "delay"
            THEN [cur EXCEPT !.idx = i, !.pc = "delay",
                             !.delayBegan = now,
                             !.wakeAt = now + TimerDelay(DelaySeconds(n.config.delay, n.config.delayUnit)),
                             !.log = Append(@, [ev |-> "start", node |-> n.id])]
            ELSE IF n.type = "action"
            THEN IF n.service \notin RegisteredActions
                 THEN [cur EXCEPT !.idx = i, !.pc = "catch",
                                  !.error = HandlerNotFoundMessage("action", n.service)]
                 ELSE [cur EXCEPT !.idx = i, !.pc = "action",
                                  !.log = Append(@, [ev |-> "start", node |-> n.id])]
            ELSE AdvanceReloads(cur, i + 1)

\* The for loop over sortedNodes, continued from index i up to its next await:
\* trigger nodes are passed over, a delay node starts its timer, an action node
\* starts its handler (or raises when none is registered); past the last node
\* the run goes on to save the success.
RECURSIVE Advance(_, _)
Advance(run, i) ==
    IF i > Len(run.sortedNodes) THEN [run EXCEPT !.idx = i, !.pc = "saveSuccess"]
    ELSE LET n == run.sortedNodes[i] IN
         IF n.type = "delay"
         THEN [run EXCEPT !.idx = i, !.pc = "delay",
                          !.delayBegan = now,
                          !.wakeAt = now + TimerDelay(DelaySeconds(n.config.delay, n.config.delayUnit)),
                          !.log = Append(@, [ev |-> "start", node |-> n.id])]
         ELSE IF n.type = "action"
         THEN IF n.service \notin RegisteredActions
              THEN [run EXCEPT !.idx = i, !.pc = "catch",
                               !.error = HandlerNotFoundMessage("action", n.service)]
              ELSE [run EXCEPT !.idx = i, !.pc = "action",
                               !.log = Append(@, [ev |-> "start", node |-> n.id])]
         ELSE Advance(run, i + 1)

\* Mutant: the node loop starts behind the trigger node.
ValidateTriggerSkipsEarlier(r) ==
    /\ runs[r].pc = "validate"
    /\ LET sorted == SortByPosition(runs[r].automation.nodes)
           t == FindTrigger(sorted)
           run == [runs[r] EXCEPT !.sortedNodes = sorted]
       IN runs' = [runs EXCEPT ![r] =
              IF t = 0 THEN [run EXCEPT !.pc = "catch", !.error = "No trigger node found"]
              ELSE IF sorted[t].service \notin RegisteredTriggers
                   THEN [run EXCEPT !.pc = "catch",
                                         !.error = HandlerNotFoundMessage("trigger", sorted[t].service)]
              ELSE IF TriggerValidateRaises(sorted[t].service, sorted[t].config, run.triggerData)
                   THEN [run EXCEPT !.pc = "catch",
                                    !.error = "Cannot read properties of null"]
              ELSE IF ~TriggerValidate(sorted[t].service, sorted[t].config, run.triggerData)
                   THEN [run EXCEPT !.pc = "mismatch", !.validated = "invalid"]
              ELSE Advance([run EXCEPT !.validated = "valid"], t + 1)]
    /\ UNCHANGED << automations, contacts, executions, dispatches, crudOps, now >>

\* Sort, locate the trigger node, look its handler up and validate the trigger;
\* on a match enter the node loop.
ValidateTrigger(r) ==
    /\ runs[r].pc = "validate"
    /\ LET sorted == SortByPosition(runs[r].automation.nodes)
           t == FindTrigger(sorted)
           run == [runs[r] EXCEPT !.sortedNodes = sorted]
       IN runs' = [runs EXCEPT ![r] =
              IF t = 0 THEN [run EXCEPT !.pc = "catch", !.error = "No trigger node found"]
              ELSE IF sorted[t].service \notin RegisteredTriggers
                   THEN [run EXCEPT !.pc = "catch",
                                         !.error = HandlerNotFoundMessage("trigger", sorted[t].service)]
              ELSE IF TriggerValidateRaises(sorted[t].service, sorted[t].config, run.triggerData)
                   THEN [run EXCEPT !.pc = "catch",
                                    !.error = "Cannot read properties of null"]
              ELSE IF ~TriggerValidate(sorted[t].service, sorted[t].config, run.triggerData)
                   THEN [run EXCEPT !.pc = "mismatch", !.validated = "invalid"]
              ELSE Advance([run EXCEPT !.validated = "valid"], 1)]
    /\ UNCHANGED << automations, contacts, executions, dispatches, crudOps, now >>

\* Mutant: the mismatch is thrown to the caller instead of returned.
SaveMismatchRaises(r) ==
    /\ runs[r].pc = "mismatch"
    /\ executions' = [executions EXCEPT ![runs[r].execution].status = "failed",
                                        ![runs[r].execution].errorMessage = "Trigger validation failed"]
    /\ runs' = [runs EXCEPT ![r].pc = "done", ![r].outcome = "rejected",
                            ![r].error = "Trigger validation failed"]
    /\ UNCHANGED << automations, contacts, dispatches, crudOps, now >>

\* Mutant: the mismatch branch also counts the run in executionCount.
SaveMismatchCounts(r) ==
    /\ runs[r].pc = "mismatch"
    /\ executions' = [executions EXCEPT ![runs[r].execution].status = "failed",
                                        ![runs[r].execution].errorMessage = "Trigger validation failed"]
    /\ runs' = [runs EXCEPT ![r].pc = "done", ![r].outcome = "resolved"]
    /\ automations' = [automations EXCEPT ![runs[r].automationId].executionCount =
                            IF automations[runs[r].automationId].exists
                            THEN runs[r].automation.executionCount + 1 ELSE @]
    /\ UNCHANGED << contacts, dispatches, crudOps, now >>

\* execution.status = 'failed'; execution.errorMessage = 'Trigger validation failed';
\* await execution.save(); return;
SaveMismatch(r) ==
    /\ runs[r].pc = "mismatch"
    /\ executions' = [executions EXCEPT ![runs[r].execution].status = "failed",
                                        ![runs[r].execution].errorMessage = "Trigger validation failed"]
    /\ runs' = [runs EXCEPT ![r].pc = "done", ![r].outcome = "resolved"]
    /\ UNCHANGED << automations, contacts, dispatches, crudOps, now >>

\* The timer of await this.delay(node.config.delay, node.config.delayUnit) fires.
DelayElapsed(r) ==
    /\ runs[r].pc = "delay"
    /\ now >= runs[r].wakeAt
    /\ LET n == runs[r].sortedNodes[runs[r].idx] IN
       runs' = [runs EXCEPT ![r] =
                   Advance([@ EXCEPT !.log = Append(@, [ev |-> "end", node |-> n.id]),
                                     !.waits = Append(@, [node |-> n.id,
                                                          began |-> runs[r].delayBegan,
                                                          ended |-> now])],
                           runs[r].idx + 1)]
    /\ UNCHANGED << automations, contacts, executions, dispatches, crudOps, now >>

\* await actionHandler.execute(node.config, triggerData, context) settles:
\* it raises, or it returns and its result is pushed on actionResults.
FinishAction(r) ==
    /\ runs[r].pc = "action"
    /\ runs[r].sortedNodes[runs[r].idx].service # "keplero_create_contact"
    /\ LET n == runs[r].sortedNodes[runs[r].idx]
           d == runs[r].triggerData
       IN IF ActionRaises(n.service, n.config, d, contacts)
          THEN /\ runs' = [runs EXCEPT ![r].pc = "catch",
                               ![r].error = ActionErrorMessage(n.service, n.config, d),
                               ![r].log = Append(@, [ev |-> "raise", node |-> n.id])]
               /\ UNCHANGED contacts
          ELSE /\ \E net \in NetworkOutcomes(n.service) :
                    runs' = [runs EXCEPT ![r] =
                      Advance([@ EXCEPT
                                 !.actionResults = Append(@,
                                    [nodeId |-> n.id, service |-> n.service,
                                     result |-> IF n.service = "keplero_api_call"
                                                THEN ApiCallResult(net)
                                                ELSE ActionResult(n.service, n.config, d, contacts)]),
                                 !.log = Append(@, [ev |-> "end", node |-> n.id])],
                              runs[r].idx + 1)]
               /\ contacts' = ActionEffect(n.service, n.config, d, contacts)
    /\ UNCHANGED << automations, executions, dispatches, crudOps, now >>

\* execution.status = 'success'; execution.actionData = actionResults; await execution.save();
SaveSuccess(r) ==
    /\ runs[r].pc = "saveSuccess"
    /\ executions' = [executions EXCEPT ![runs[r].execution].status = "success",
                                        ![runs[r].execution].actionData = runs[r].actionResults]
    /\ runs' = [runs EXCEPT ![r].pc = "saveStats"]
    /\ UNCHANGED << automations, contacts, dispatches, crudOps, now >>

\* Mutant: the statistics are saved without the increment.
SaveStatsNoIncrement(r) ==
    /\ runs[r].pc = "saveStats"
    /\ LET a == runs[r].automationId
           n == runs[r].automation.executionCount
       IN IF automations[a].exists
          THEN /\ automations' = [automations EXCEPT ![a].executionCount = n,
                                                     ![a].nodes = runs[r].sortedNodes]
               /\ runs' = [runs EXCEPT ![r].pc = "done", ![r].outcome = "resolved"]
          ELSE /\ runs' = [runs EXCEPT ![r].pc = "catch",
                                       ![r].error = "No document found for query"]
               /\ UNCHANGED automations
    /\ UNCHANGED << contacts, executions, dispatches, crudOps, now >>

\* automation.executionCount += 1; automation.lastExecutedAt = new Date();
\* await automation.save(): rejects when the document is no longer stored.
\* save() writes the paths modified on the loaded document: executionCount,
\* and nodes, which automation.nodes.sort(...) reordered in place.
SaveStats(r) ==
    /\ runs[r].pc = "saveStats"
    /\ LET a == runs[r].automationId
           n == runs[r].automation.executionCount + 1
       IN IF automations[a].exists
          THEN /\ automations' = [automations EXCEPT ![a].executionCount = n,
                                                     ![a].nodes = runs[r].sortedNodes]
               /\ runs' = [runs EXCEPT ![r].pc = "done", ![r].outcome = "resolved",
                                       ![r].automation.executionCount = n]
          ELSE /\ runs' = [runs EXCEPT ![r].pc = "catch", ![r].automation.executionCount = n,
                                       ![r].error = "No document found for query"]
               /\ UNCHANGED automations
    /\ UNCHANGED << contacts, executions, dispatches, crudOps, now >>

\* Mutant: the catch block rethrows without recording the failure.
CatchRethrowsOnly(r) ==
    /\ runs[r].pc = "catch"
    /\ runs' = [runs EXCEPT ![r].pc = "done", ![r].outcome = "rejected",
                            ![r].sink = RejectionSink(runs[r].launcher)]
    /\ Deliver(r, RejectionSink(runs[r].launcher))
    /\ UNCHANGED << automations, contacts, executions, crudOps, now >>

\* Mutant: the catch block sets the status and leaves errorMessage unset.
CatchWithoutMessage(r) ==
    /\ runs[r].pc = "catch"
    /\ executions' = [executions EXCEPT ![runs[r].execution].status = "failed"]
    /\ runs' = [runs EXCEPT ![r].pc = "done", ![r].outcome = "rejected",
                            ![r].sink = RejectionSink(runs[r].launcher)]
    /\ Deliver(r, RejectionSink(runs[r].launcher))
    /\ UNCHANGED << automations, contacts, crudOps, now >>

\* Mutant: the catch block records the failure but does not rethrow.
CatchSwallows(r) ==
    /\ runs[r].pc = "catch"
    /\ executions' = [executions EXCEPT ![runs[r].execution].status = "failed",
                                        ![runs[r].execution].errorMessage = runs[r].error]
    /\ runs' = [runs EXCEPT ![r].pc = "done", ![r].outcome = "resolved"]
    /\ UNCHANGED << automations, contacts, dispatches, crudOps, now >>

\* catch (error) { execution.status = 'failed'; execution.errorMessage = error.message;
\*                 await execution.save(); throw error; }
Catch(r) ==
    /\ runs[r].pc = "catch"
    /\ executions' = [executions EXCEPT ![runs[r].execution].status = "failed",
                                        ![runs[r].execution].errorMessage = runs[r].error]
    /\ runs' = [runs EXCEPT ![r].pc = "done", ![r].outcome = "rejected",
                            ![r].sink = RejectionSink(runs[r].launcher)]
    /\ Deliver(r, RejectionSink(runs[r].launcher))
    /\ UNCHANGED << automations, contacts, crudOps, now >>

(* ----------------------------- triggerByEvent ------------------------- *)
\* Automation.find({ isActive: true }): the active documents, in id order.
RECURSIVE FindActiveFrom(_)
FindActiveFrom(id) ==
    IF id \notin AutomationIds THEN << >>
    ELSE IF automations[id].exists /\ automations[id].isActive
         THEN << [id |-> id, name |-> automations[id].name, nodes |-> automations[id].nodes] >>
              \o FindActiveFrom(id + 1)
         ELSE FindActiveFrom(id + 1)

FindActive == FindActiveFrom(1)

\* Mutant: the result of validate is ignored.
DispatchMatchesAny(nodes, data) ==
    LET t == FindTrigger(nodes) IN
    /\ t # 0
    /\ nodes[t].service \in RegisteredTriggers

\* The dispatcher's test of one scanned automation: first trigger node in
\* storage order, registered handler, validate(config, eventData) inside a try
\* whose catch logs and goes on.
DispatchMatches(nodes, data) ==
    LET t == FindTrigger(nodes) IN
    /\ t # 0
    /\ nodes[t].service \in RegisteredTriggers
    /\ ~TriggerValidateRaises(nodes[t].service, nodes[t].config, data)
    /\ TriggerValidate(nodes[t].service, nodes[t].config, data)

\* triggerByEvent(event, eventData) called, suspended at Automation.find.
DispatchCall(data) ==
    /\ Len(dispatches) < MaxDispatches
    /\ dispatches' = Append(dispatches,
            [eventData |-> data, pc |-> "find", found |-> << >>, i |-> 0,
             results |-> << >>, launched |-> << >>])
    /\ UNCHANGED << automations, contacts, executions, runs, crudOps, now >>

\* const automations = await Automation.find({ isActive: true });
DispatchFind(d) ==
    /\ dispatches[d].pc = "find"
    /\ dispatches' = [dispatches EXCEPT ![d].pc = "scan", ![d].found = FindActive, ![d].i = 1]
    /\ UNCHANGED << automations, contacts, executions, runs, crudOps, now >>

\* Mutant: a scanned automation without a trigger node, or whose validate
\* raises, makes the dispatch call raise.
DispatchScanRaises(d) ==
    /\ dispatches[d].pc = "scan"
    /\ dispatches[d].i <= Len(dispatches[d].found)
    /\ LET a == dispatches[d].found[dispatches[d].i]
           t == FindTrigger(a.nodes)
       IN IF t = 0 \/ dispatches[d].eventData = NullData
          THEN /\ dispatches' = [dispatches EXCEPT ![d].pc = "raised"]
               /\ UNCHANGED runs
          ELSE IF DispatchMatches(a.nodes, dispatches[d].eventData)
          THEN /\ Len(runs) < MaxRuns
               /\ runs' = Append(runs, NewRun(a.id, dispatches[d].eventData, "dispatch", d))
               /\ dispatches' = [dispatches EXCEPT
                       ![d].i = @ + 1,
                       ![d].results = Append(@, [automationId |-> a.id, name |-> a.name, triggered |-> TRUE]),
                       ![d].launched = Append(@, Len(runs) + 1)]
          ELSE /\ dispatches' = [dispatches EXCEPT ![d].i = @ + 1]
               /\ UNCHANGED runs
    /\ UNCHANGED << automations, contacts, executions, crudOps, now >>

\* Mutant: the dispatcher awaits each run it started, await this.executeAutomation(...).
DispatchScanAwaits(d) ==
    /\ dispatches[d].pc = "scan"
    /\ dispatches[d].i <= Len(dispatches[d].found)
    /\ \A k \in 1..Len(dispatches[d].launched) : runs[dispatches[d].launched[k]].pc = "done"
    /\ LET a == dispatches[d].found[dispatches[d].i] IN
       IF DispatchMatches(a.nodes, dispatches[d].eventData)
       THEN /\ Len(runs) < MaxRuns
            /\ runs' = Append(runs, NewRun(a.id, dispatches[d].eventData, "dispatch", d))
            /\ dispatches' = [dispatches EXCEPT
                    ![d].i = @ + 1,
                    ![d].results = Append(@, [automationId |-> a.id, name |-> a.name, triggered |-> TRUE]),
                    ![d].launched = Append(@, Len(runs) + 1)]
       ELSE /\ dispatches' = [dispatches EXCEPT ![d].i = @ + 1]
            /\ UNCHANGED runs
    /\ UNCHANGED << automations, contacts, executions, crudOps, now >>

\* One iteration of for (const automation of automations): skip, or validate
\* and on a match start executeAutomation and push the result entry.
DispatchScan(d) ==
    /\ dispatches[d].pc = "scan"
    /\ dispatches[d].i <= Len(dispatches[d].found)
    /\ LET a == dispatches[d].found[dispatches[d].i] IN
       IF DispatchMatches(a.nodes, dispatches[d].eventData)
       THEN /\ Len(runs) < MaxRuns
            /\ runs' = Append(runs, NewRun(a.id, dispatches[d].eventData, "dispatch", d))
            /\ dispatches' = [dispatches EXCEPT
                    ![d].i = @ + 1,
                    ![d].results = Append(@, [automationId |-> a.id, name |-> a.name, triggered |-> TRUE]),
                    ![d].launched = Append(@, Len(runs) + 1)]
       ELSE /\ dispatches' = [dispatches EXCEPT ![d].i = @ + 1]
            /\ UNCHANGED runs
    /\ UNCHANGED << automations, contacts, executions, crudOps, now >>

\* return results;
DispatchReturn(d) ==
    /\ dispatches[d].pc = "scan"
    /\ dispatches[d].i > Len(dispatches[d].found)
    /\ dispatches' = [dispatches EXCEPT ![d].pc = "returned"]
    /\ UNCHANGED << automations, contacts, executions, runs, crudOps, now >>

(* --------------------------------- time ------------------------------- *)
\* The timers that have not fired yet.
PendingTimers == {r \in 1..Len(runs) : runs[r].pc = "delay" /\ runs[r].wakeAt > now}

\* Mutant: the clock stands still, so no pending timer ever fires.
TickStalls ==
    /\ FALSE
    /\ UNCHANGED vars

\* Time passes up to the next timer that is due.
Tick ==
    /\ PendingTimers # {}
    /\ now' = CHOOSE t \in {runs[r].wakeAt : r \in PendingTimers} :
                  \A r \in PendingTimers : t <= runs[r].wakeAt
    /\ UNCHANGED << automations, contacts, executions, runs, dispatches, crudOps >>

(* ------------------------- owner edits (CRUD layer) ------------------- *)
CrudSetActive(a, b) ==
    /\ crudOps < MaxCrudOps
    /\ automations[a].exists
    /\ automations[a].isActive # b
    /\ automations' = [automations EXCEPT ![a].isActive = b]
    /\ crudOps' = crudOps + 1
    /\ UNCHANGED << contacts, executions, runs, dispatches, now >>

CrudEditNodes(a, nl) ==
    /\ crudOps < MaxCrudOps
    /\ automations[a].exists
    /\ automations[a].nodes # nl
    /\ automations' = [automations EXCEPT ![a].nodes = nl]
    /\ crudOps' = crudOps + 1
    /\ UNCHANGED << contacts, executions, runs, dispatches, now >>

CrudDelete(a) ==
    /\ crudOps < MaxCrudOps
    /\ automations[a].exists
    /\ automations' = [automations EXCEPT ![a] = NoDoc]
    /\ crudOps' = crudOps + 1
    /\ UNCHANGED << contacts, executions, runs, dispatches, now >>

(* ---------------------------- specification --------------------------- *)
Next ==
    \/ \E id \in AutomationIds \cup {MissingId}, data \in EventData : ExecuteCall(id, data)
    \/ \E r \in 1..Len(runs) : Load(r)
    \/ \E r \in 1..Len(runs) : Create(r)
    \/ \E r \in 1..Len(runs) : ValidateTrigger(r)
    \/ \E r \in 1..Len(runs) : SaveMismatch(r)
    \/ \E r \in 1..Len(runs) : DelayElapsed(r)
    \/ \E r \in 1..Len(runs) : FinishAction(r)
    \/ \E r \in 1..Len(runs) : SaveSuccess(r)
    \/ \E r \in 1..Len(runs) : SaveStats(r)
    \/ \E r \in 1..Len(runs) : Catch(r)
    \/ \E data \in DispatchData : DispatchCall(data)
    \/ \E d \in 1..Len(dispatches) : DispatchFind(d)
    \/ \E d \in 1..Len(dispatches) : DispatchScan(d)
    \/ \E d \in 1..Len(dispatches) : DispatchReturn(d)
    \/ \E a \in EditedIds, b \in BOOLEAN : CrudSetActive(a, b)
    \/ \E a \in EditedIds, nl \in NodeLists : CrudEditNodes(a, nl)
    \/ \E a \in EditedIds : CrudDelete(a)
    \/ Tick

Spec == Init /\ [][Next]_vars

\* The same engine over the further node lists.
SpecVariants == InitVariants /\ [][Next]_vars

(* ----------------------- runs of one automation ------------------------ *)
MaxStatRuns == 3      \* concurrent executeAutomation calls on one automation

StatsId == 1          \* the automation those calls run

\* MaxStatRuns calls of executeAutomation(StatsId, data) have been made and
\* none has read the automation yet.
InitStats ==
    /\ automations \in
          { [a \in AutomationIds |->
                [exists |-> TRUE, isActive |-> TRUE,
                 name |-> IF a = 2 THEN "A2" ELSE "A1",
                 nodes |-> IF a = 2 THEN TagPipeline ELSE nl, executionCount |-> 0]] :
            nl \in {TagPipeline, ShuffledPipeline} }
    /\ contacts = [c \in {1, 2} |-> [phone |-> (c = 1), tags |-> << >>]]
    /\ executions = << >>
    /\ runs \in [1..MaxStatRuns -> {NewRun(StatsId, data, "direct", 0) : data \in EventData}]
    /\ dispatches = << >>
    /\ crudOps = 0
    /\ now = 0

\* The calls run to their ends in any interleaving.
NextStats ==
    \/ \E r \in 1..Len(runs) : Load(r)
    \/ \E r \in 1..Len(runs) : Create(r)
    \/ \E r \in 1..Len(runs) : ValidateTrigger(r)
    \/ \E r \in 1..Len(runs) : SaveMismatch(r)
    \/ \E r \in 1..Len(runs) : FinishAction(r)
    \/ \E r \in 1..Len(runs) : SaveSuccess(r)
    \/ \E r \in 1..Len(runs) : SaveStats(r)
    \/ \E r \in 1..Len(runs) : Catch(r)

SpecStats == InitStats /\ [][NextStats]_vars

(* ----------------------------- testAutomation -------------------------- *)
MaxTests == 1         \* testAutomation calls per behaviour

\* testAutomation(automationId, testData) called, suspended at its own findById.
TestCall(id, data) ==
    /\ Len(runs) < MaxTests
    /\ runs' = Append(runs, [NewRun(id, data, "test", 0) EXCEPT !.pc = "testLoad"])
    /\ UNCHANGED << automations, contacts, executions, dispatches, crudOps, now >>

\* const automation = await Automation.findById(automationId);
\* if (!automation) throw new AppError(404, ...); then executeAutomation is called.
TestLoad(r) ==
    /\ runs[r].pc = "testLoad"
    /\ runs' = [runs EXCEPT ![r] =
                   IF ~FindById(runs[r].automationId).exists
                   THEN [@ EXCEPT !.pc = "done", !.outcome = "rejected",
                                  !.error = "Automation not found", !.sink = "caller",
                                  !.report = "notFound"]
                   ELSE [@ EXCEPT !.pc = "load"]]
    /\ UNCHANGED << automations, contacts, executions, dispatches, crudOps, now >>

\* try { await this.executeAutomation(...); return {status: 'success', ...} }
\* catch (error) { return {status: 'failed', ...} }
TestReturn(r) ==
    /\ runs[r].launcher = "test"
    /\ runs[r].pc = "done"
    /\ runs[r].report = "none"
    /\ runs' = [runs EXCEPT ![r].report =
                   IF runs[r].outcome = "resolved" THEN "success" ELSE "failed"]
    /\ UNCHANGED << automations, contacts, executions, dispatches, crudOps, now >>

NextTest ==
    \/ \E id \in AutomationIds \cup {MissingId}, data \in EventData : TestCall(id, data)
    \/ \E r \in 1..Len(runs) : TestLoad(r)
    \/ \E r \in 1..Len(runs) : Load(r)
    \/ \E r \in 1..Len(runs) : Create(r)
    \/ \E r \in 1..Len(runs) : ValidateTrigger(r)
    \/ \E r \in 1..Len(runs) : SaveMismatch(r)
    \/ \E r \in 1..Len(runs) : DelayElapsed(r)
    \/ \E r \in 1..Len(runs) : FinishAction(r)
    \/ \E r \in 1..Len(runs) : SaveSuccess(r)
    \/ \E r \in 1..Len(runs) : SaveStats(r)
    \/ \E r \in 1..Len(runs) : Catch(r)
    \/ \E r \in 1..Len(runs) : TestReturn(r)
    \/ Tick

SpecTest == Init /\ [][NextTest]_vars

(* ------------------------ a time-dependent trigger --------------------- *)
MaxMinutes == 2       \* minutes that pass while the calls are made
MaxCartRuns == 2      \* executeAutomation calls with the same cart payload

\* A cart_abandoned trigger with timeThreshold 1 (minute) before one action.
CartPipeline ==
    << [id |-> 1, type |-> "trigger", service |-> "cart_abandoned", position |-> 1,
        config |-> [listId |-> "none", tag |-> "none", delay |-> 0, delayUnit |-> "none",
                    timeThreshold |-> 1]],
       ActionNode(2, 2, "send_email", "none") >>

\* The payload of a cart abandoned at time 0.
CartData == [event |-> "cart_abandoned", contactId |-> 1, listId |-> "none", abandonedAt |-> 0]

\* MaxCartRuns calls of executeAutomation(StatsId, CartData) have been made.
InitCart ==
    /\ automations = [a \in AutomationIds |->
                         [exists |-> TRUE, isActive |-> TRUE,
                          name |-> IF a = 2 THEN "A2" ELSE "A1",
                          nodes |-> IF a = 2 THEN TagPipeline ELSE CartPipeline,
                          executionCount |-> 0]]
    /\ contacts = [c \in {1, 2} |-> [phone |-> (c = 1), tags |-> << >>]]
    /\ executions = << >>
    /\ runs = [r \in 1..MaxCartRuns |-> NewRun(StatsId, CartData, "direct", 0)]
    /\ dispatches = << >>
    /\ crudOps = 0
    /\ now = 0

\* A minute passes.
TimePasses ==
    /\ now < 60 * MaxMinutes
    /\ now' = now + 60
    /\ UNCHANGED << automations, contacts, executions, runs, dispatches, crudOps >>

NextCart ==
    \/ \E r \in 1..Len(runs) : Load(r)
    \/ \E r \in 1..Len(runs) : Create(r)
    \/ \E r \in 1..Len(runs) : ValidateTrigger(r)
    \/ \E r \in 1..Len(runs) : SaveMismatch(r)
    \/ \E r \in 1..Len(runs) : FinishAction(r)
    \/ \E r \in 1..Len(runs) : SaveSuccess(r)
    \/ \E r \in 1..Len(runs) : SaveStats(r)
    \/ TimePasses

SpecCart == InitCart /\ [][NextCart]_vars

(* --------------------------- contact creation -------------------------- *)
\* keplero_create_contact has two awaits of its own, Customer.findOne and
\* Customer.create, so a run passes the node in two steps.
MaxContactRuns == 2   \* runs of the contact-creating automation per behaviour
NoEmail == ""         \* a config or a contact without an email

CreateContactNode(id, pos, email) ==
    [id |-> id, type |-> "action", service |-> "keplero_create_contact", position |-> pos,
     config |-> [listId |-> "none", tag |-> "none", delay |-> 0, delayUnit |-> "none",
                 email |-> email]]

CreateContactPipeline(email) ==
    << TriggerNode(1, 1, "keplero_contact_created", "none"),
       CreateContactNode(2, 2, email) >>

\* The contacts that have the email, and the one findOne({ email }) returns.
ContactsWithEmail(email) == {c \in DOMAIN contacts : contacts[c].email = email}

FindOneByEmail(email) ==
    IF ContactsWithEmail(email) = {} THEN NoContact
    ELSE CHOOSE c \in ContactsWithEmail(email) : \A d \in ContactsWithEmail(email) : c <= d

\* The _id Customer.create gives the new document.
NewContactId == Cardinality(DOMAIN contacts) + 1

\* The handler returns: its result is pushed and the node loop goes on.
ContactReturn(run, n, flag, message, contactId) ==
    Advance([run EXCEPT
               !.actionResults = Append(@,
                  [nodeId |-> n.id, service |-> n.service,
                   result |-> [flag |-> flag, value |-> message, contactId |-> contactId]]),
               !.log = Append(@, [ev |-> "end", node |-> n.id])],
            run.idx + 1)

\* if (email) contact = await Customer.findOne({ email });
\* if (contact) return { success: false, message: 'Contact already exists', contactId };
\* otherwise the handler goes on to Customer.create and is suspended there.
CreateContactFind(r) ==
    /\ runs[r].pc = "action"
    /\ LET n == runs[r].sortedNodes[runs[r].idx] IN
       /\ n.service = "keplero_create_contact"
       /\ n.config.email # NoEmail
       /\ LET found == FindOneByEmail(n.config.email) IN
          runs' = [runs EXCEPT ![r] =
                      IF found # NoContact
                      THEN ContactReturn(@, n, FALSE, "Contact already exists", found)
                      ELSE [@ EXCEPT !.pc = "createContact"]]
    /\ UNCHANGED << automations, contacts, executions, dispatches, crudOps, now >>

\* contact = await Customer.create({ name, email, phone, tags }); lists is
\* empty; return { success: true, contactId, message }. The Customer schema
\* is not part of the source: with a unique index on email the insert of a
\* second contact with the email raises a duplicate key error, without one
\* it is stored.
CreateContactCreate(r) ==
    /\ \/ runs[r].pc = "createContact"
       \/ /\ runs[r].pc = "action"
          /\ runs[r].sortedNodes[runs[r].idx].service = "keplero_create_contact"
          /\ runs[r].sortedNodes[runs[r].idx].config.email = NoEmail
    /\ LET n == runs[r].sortedNodes[runs[r].idx] IN
       \/ /\ contacts' = [c \in DOMAIN contacts \cup {NewContactId} |->
                             IF c = NewContactId
                             THEN [phone |-> FALSE, tags |-> << >>, email |-> n.config.email]
                             ELSE contacts[c]]
          /\ runs' = [runs EXCEPT ![r] =
                         ContactReturn(@, n, TRUE, "Contact created successfully",
                                       NewContactId)]
       \/ /\ n.config.email # NoEmail
          /\ ContactsWithEmail(n.config.email) # {}
          /\ runs' = [runs EXCEPT ![r].pc = "catch",
                                  ![r].error = "E11000 duplicate key error",
                                  ![r].log = Append(@, [ev |-> "raise", node |-> n.id])]
          /\ UNCHANGED contacts
    /\ UNCHANGED << automations, executions, dispatches, crudOps, now >>

\* Runs of one automation whose action creates a contact with a configured
\* email; contact 1 may have that email already.
InitContacts ==
    /\ automations \in
          { [a \in AutomationIds |->
                [exists |-> TRUE, isActive |-> TRUE,
                 name |-> IF a = 2 THEN "A2" ELSE "A1",
                 nodes |-> IF a = 2 THEN TagPipeline ELSE CreateContactPipeline(email),
                 executionCount |-> 0]] :
            email \in {"ann@example.com", NoEmail} }
    /\ contacts \in
          { [c \in {1, 2} |-> [phone |-> (c = 1), tags |-> << >>,
                               email |-> IF c = 1 THEN e ELSE NoEmail]] :
            e \in {"ann@example.com", "bob@example.com"} }
    /\ executions = << >>
    /\ runs \in [1..MaxContactRuns ->
                    {NewRun(StatsId, data, "direct", 0) : data \in EventData}]
    /\ dispatches = << >>
    /\ crudOps = 0
    /\ now = 0

NextContacts ==
    \/ \E r \in 1..Len(runs) : Load(r)
    \/ \E r \in 1..Len(runs) : Create(r)
    \/ \E r \in 1..Len(runs) : ValidateTrigger(r)
    \/ \E r \in 1..Len(runs) : SaveMismatch(r)
    \/ \E r \in 1..Len(runs) : CreateContactFind(r)
    \/ \E r \in 1..Len(runs) : CreateContactCreate(r)
    \/ \E r \in 1..Len(runs) : SaveSuccess(r)
    \/ \E r \in 1..Len(runs) : SaveStats(r)
    \/ \E r \in 1..Len(runs) : Catch(r)

SpecContacts == InitContacts /\ [][NextContacts]_vars

(* ------------------------------- claims -------------------------------- *)
RunIds == 1..Len(runs)

\* The execution records a run created.
RecordsOf(r) == {e \in 1..Len(executions) : executions[e].run = r}

\* The run passed its exists-and-active check and created its record.
Created(r) == runs[r].execution # 0

\* The run's one trigger node has a registered handler that the payload fails.
TriggerMismatches(r) ==
    LET nodes == runs[r].automation.nodes
        t == FindTrigger(nodes)
    IN /\ t # 0
       /\ nodes[t].service \in RegisteredTriggers
       /\ ~TriggerValidate(nodes[t].service, nodes[t].config, runs[r].triggerData)

\* C1: a call whose automation is missing or inactive when loaded is rejected
\* with the not-found-or-inactive error, creates no execution record and starts
\* no delay or action handler.
C1_RejectsMissingOrInactive ==
    \A r \in RunIds :
        (runs[r].pc # "load" /\ (~runs[r].automation.exists \/ ~runs[r].automation.isActive))
        => /\ runs[r].pc = "done"
           /\ runs[r].outcome = "rejected"
           /\ runs[r].error = "Automation not found or inactive"
           /\ runs[r].execution = 0
           /\ RecordsOf(r) = {}
           /\ runs[r].log = << >>
           /\ runs[r].actionResults = << >>

C1_Witness ==
    \E r \in RunIds :
        /\ runs[r].pc = "done"
        /\ runs[r].launcher = "direct"
        /\ runs[r].automation.exists
        /\ ~runs[r].automation.isActive
        /\ runs[r].outcome = "rejected"

\* C2: a run of an active automation whose trigger predicate the payload does
\* not satisfy starts no delay and no action handler, and ends with its record
\* failed with the fixed message and a normal return to the caller.
C2_MismatchFailsQuietly ==
    \A r \in RunIds :
        (Created(r) /\ runs[r].pc # "validate" /\ TriggerMismatches(r))
        => /\ runs[r].log = << >>
           /\ runs[r].actionResults = << >>
           /\ runs[r].pc \in {"mismatch", "done"}
           /\ runs[r].pc = "done" =>
                 /\ runs[r].outcome = "resolved"
                 /\ runs[r].error = "none"
                 /\ executions[runs[r].execution].status = "failed"
                 /\ executions[runs[r].execution].errorMessage = "Trigger validation failed"
                 /\ executions[runs[r].execution].actionData = << >>

C2_Witness ==
    \E r \in RunIds :
        /\ runs[r].pc = "done"
        /\ Created(r)
        /\ TriggerMismatches(r)
        /\ runs[r].outcome = "resolved"
        /\ executions[runs[r].execution].status = "failed"

\* The stored node with the given id.
NodeById(nodes, id) == nodes[CHOOSE k \in 1..Len(nodes) : nodes[k].id = id]

ActionIds(nodes) == {nodes[k].id : k \in {j \in 1..Len(nodes) : nodes[j].type = "action"}}

\* The run's node loop ended with a handler raising.
HandlerRaised(r) ==
    /\ runs[r].log # << >>
    /\ runs[r].log[Len(runs[r].log)].ev = "raise"

\* C3: a record in status success holds exactly one entry per action node of
\* the automation its run loaded, each with that node's id and service, in
\* ascending order of the nodes' positions.
C3_SuccessActionDataInPositionOrder ==
    \A e \in 1..Len(executions) :
        executions[e].status = "success"
        => LET nodes == runs[executions[e].run].automation.nodes
               ad == executions[e].actionData
           IN /\ Len(ad) = Cardinality(ActionIds(nodes))
              /\ {ad[i].nodeId : i \in 1..Len(ad)} = ActionIds(nodes)
              /\ \A i \in 1..Len(ad) : ad[i].service = NodeById(nodes, ad[i].nodeId).service
              /\ \A i, j \in 1..Len(ad) :
                    i < j => NodeById(nodes, ad[i].nodeId).position
                                 < NodeById(nodes, ad[j].nodeId).position

C3_Witness ==
    \E e \in 1..Len(executions) :
        /\ executions[e].status = "success"
        /\ Len(executions[e].actionData) = 3
        /\ runs[executions[e].run].automation.nodes = ShuffledPipeline

\* C4: when the k-th action node of a run raised, the run's persisted record
\* holds exactly the k-1 entries of the action nodes that returned before it.
C4_PartialActionDataPersisted ==
    \A r \in RunIds :
        (runs[r].pc = "done" /\ HandlerRaised(r))
        => LET k == Cardinality({i \in 1..Len(runs[r].log) :
                        /\ runs[r].log[i].ev = "start"
                        /\ NodeById(runs[r].automation.nodes, runs[r].log[i].node).type = "action"})
           IN /\ Len(executions[runs[r].execution].actionData) = k - 1
              /\ executions[runs[r].execution].actionData = runs[r].actionResults

\* Number of tags the add_tag handlers of runs 1..r reported as applied.
RECURSIVE TagsApplied(_)
TagsApplied(r) ==
    IF r = 0 THEN 0
    ELSE TagsApplied(r - 1)
         + Cardinality({i \in 1..Len(runs[r].actionResults) :
                           /\ runs[r].actionResults[i].service = "add_tag"
                           /\ runs[r].actionResults[i].result.flag})

RECURSIVE TagsStored(_)
TagsStored(c) == IF c = 0 THEN 0 ELSE TagsStored(c - 1) + Len(contacts[c].tags)

\* C5: a raise of an action handler is the last node event of its run: the run
\* carries the raised message, ends with its record failed with that message
\* and the error rethrown to its caller, and every tag applied by an earlier
\* action stays applied.
C5_HandlerRaiseFailsRun ==
    /\ TagsStored(2) = TagsApplied(Len(runs))
    /\ \A r \in RunIds : \A i \in 1..Len(runs[r].log) :
          runs[r].log[i].ev = "raise"
          => /\ i = Len(runs[r].log)
             /\ runs[r].pc \in {"catch", "done"}
             /\ runs[r].error = "Contact not found or phone number missing"
             /\ runs[r].pc = "done" =>
                   /\ runs[r].outcome = "rejected"
                   /\ runs[r].sink = IF runs[r].launcher = "dispatch" THEN "log" ELSE "caller"
                   /\ executions[runs[r].execution].status = "failed"
                   /\ executions[runs[r].execution].errorMessage = runs[r].error

C5_Witness ==
    \E r \in RunIds :
        /\ runs[r].pc = "done"
        /\ HandlerRaised(r)
        /\ runs[r].launcher = "direct"
        /\ Len(runs[r].actionResults) = 1
        /\ runs[r].actionResults[1].result.flag
        /\ contacts[2].tags # << >>

\* C6: a record whose persisted status is success or failed keeps that status
\* in every later state.
C6_TerminalStatusIsFinal ==
    [][\A e \in 1..Len(executions) :
          executions[e].status \in {"success", "failed"}
          => executions'[e].status = executions[e].status]_vars

DispatchIds == 1..Len(dispatches)

\* The runs a dispatch call launched.
LaunchedBy(d) == {r \in RunIds : runs[r].launcher = "dispatch" /\ runs[r].parent = d}

\* The payload satisfies the predicate of a registered trigger node of the list.
EventSatisfiesTrigger(nodes, data) ==
    \E k \in 1..Len(nodes) :
        /\ nodes[k].type = "trigger"
        /\ nodes[k].service \in RegisteredTriggers
        /\ TriggerValidate(nodes[k].service, nodes[k].config, data)

\* C7: no dispatch call is ever aborted by an error; the rejection of a run
\* it launched goes to the log handler; and a dispatch call that returned has
\* launched a run for every scanned automation the event matches, whatever
\* happened to the runs launched before.
C7_RunErrorsStayOutOfDispatch ==
    /\ \A d \in DispatchIds : dispatches[d].pc # "raised"
    /\ \A r \in RunIds :
          (runs[r].launcher = "dispatch" /\ runs[r].outcome = "rejected") => runs[r].sink = "log"
    /\ \A d \in DispatchIds :
          dispatches[d].pc = "returned"
          => \A k \in 1..Len(dispatches[d].found) :
                EventSatisfiesTrigger(dispatches[d].found[k].nodes, dispatches[d].eventData)
                => \E r \in LaunchedBy(d) : runs[r].automationId = dispatches[d].found[k].id

C7_Witness ==
    \E d \in DispatchIds :
        /\ dispatches[d].pc = "returned"
        /\ Len(dispatches[d].launched) = 2
        /\ LET r1 == dispatches[d].launched[1]
               r2 == dispatches[d].launched[2]
           IN /\ runs[r1].pc = "done"
              /\ HandlerRaised(r1)
              /\ runs[r1].outcome = "rejected"
              /\ runs[r2].pc = "done"
              /\ runs[r2].outcome = "resolved"
              /\ executions[runs[r2].execution].status = "success"

\* C8: a dispatch call that returned holds one entry {automationId, name,
\* triggered: true} for exactly the scanned (active) automations whose trigger
\* the event satisfies, has launched exactly one run with the event payload for
\* each entry and none for any other automation, so that no record of its runs
\* belongs to a non-matching automation.
C8_DispatchLaunchesExactlyMatches ==
    \A d \in DispatchIds :
        dispatches[d].pc = "returned"
        => LET found == dispatches[d].found
               data == dispatches[d].eventData
               results == dispatches[d].results
               matching == {found[k].id : k \in {j \in 1..Len(found) :
                                EventSatisfiesTrigger(found[j].nodes, data)}}
           IN /\ {results[j].automationId : j \in 1..Len(results)} = matching
              /\ Len(results) = Cardinality(matching)
              /\ \A j \in 1..Len(results) :
                    /\ results[j].triggered
                    /\ \E k \in 1..Len(found) : /\ found[k].id = results[j].automationId
                                                /\ found[k].name = results[j].name
                    /\ Cardinality({r \in LaunchedBy(d) :
                           runs[r].automationId = results[j].automationId}) = 1
              /\ Cardinality(LaunchedBy(d)) = Len(results)
              /\ \A r \in LaunchedBy(d) : runs[r].triggerData = data
              /\ \A e \in 1..Len(executions) :
                    executions[e].run \in LaunchedBy(d) => executions[e].automationId \in matching
              /\ crudOps = 0 =>
                    matching = {a \in AutomationIds :
                                   /\ automations[a].exists
                                   /\ automations[a].isActive
                                   /\ EventSatisfiesTrigger(automations[a].nodes, data)}

C8_Witness ==
    \E d \in DispatchIds :
        /\ dispatches[d].pc = "returned"
        /\ Len(dispatches[d].found) = 2
        /\ Len(dispatches[d].results) = 1
        /\ \E e \in 1..Len(executions) : executions[e].run \in LaunchedBy(d)

\* C9: every record created by a dispatch-launched run belongs to an automation
\* that is stored as active at the moment the record is created.
C9_NoRecordForInactive ==
    \A e \in 1..Len(executions) :
        runs[executions[e].run].launcher = "dispatch" => executions[e].activeAtCreate

\* C10: in every run the node events alternate start and end of the same node,
\* only delay and action nodes are started, a node is started only when the
\* node before it has ended, and the started nodes have strictly ascending
\* positions.
C10_NodesRunInPositionOrder ==
    \A r \in RunIds :
        LET log == runs[r].log
            nodes == runs[r].automation.nodes
        IN /\ \A i \in 1..Len(log) :
                 /\ log[i].ev = "start" =>
                       /\ i = 1 \/ log[i - 1].ev = "end"
                       /\ NodeById(nodes, log[i].node).type \in {"delay", "action"}
                 /\ log[i].ev \in {"end", "raise"} =>
                       /\ i > 1
                       /\ log[i - 1] = [ev |-> "start", node |-> log[i].node]
           /\ \A i, j \in 1..Len(log) :
                 (i < j /\ log[i].ev = "start" /\ log[j].ev = "start")
                 => NodeById(nodes, log[i].node).position < NodeById(nodes, log[j].node).position
           /\ runs[r].pc \in {"delay", "action"} <=> (log # << >> /\ log[Len(log)].ev = "start")

C10_Witness ==
    \E r \in RunIds :
        /\ runs[r].automation.nodes = DelayPipeline
        /\ Len(runs[r].log) = 4
        /\ runs[r].log[1].node = 2
        /\ runs[r].log[3].node = 3

\* The units the delay node converts.
DelayUnits == {"minutes", "hours", "days"}

\* C11: a delay node with amount a and unit u in DelayUnits suspends its run
\* for exactly a * m(u) (here in seconds: 60, 3600, 86400 per unit): the timer
\* of a suspended run is due that long after the delay began, and a delay that
\* ended (after which the next node starts) lasted at least that long.
C11_DelaySuspendsForConvertedTime ==
    \A r \in RunIds :
       /\ runs[r].pc = "delay" =>
             LET n == runs[r].sortedNodes[runs[r].idx] IN
             n.config.delayUnit \in DelayUnits =>
                runs[r].wakeAt - runs[r].delayBegan
                    = DelaySeconds(n.config.delay, n.config.delayUnit)
       /\ \A i \in 1..Len(runs[r].waits) :
             LET w == runs[r].waits[i]
                 n == NodeById(runs[r].sortedNodes, w.node)
             IN n.config.delayUnit \in DelayUnits =>
                   w.ended - w.began >= DelaySeconds(n.config.delay, n.config.delayUnit)

\* The step a run that is not suspended at a delay takes next.
RunStep(r) ==
    \/ Load(r) \/ Create(r) \/ ValidateTrigger(r) \/ SaveMismatch(r)
    \/ FinishAction(r) \/ SaveSuccess(r) \/ SaveStats(r) \/ Catch(r)

\* Some run is suspended at a delay node whose timer has not fired.
SomeRunSuspended == \E r \in RunIds : runs[r].pc = "delay" /\ runs[r].wakeAt > now

\* C12: a run suspended at a delay node blocks only itself. While one is
\* suspended, every dispatch call can take its next step (read the active
\* automations, scan the next one, return its result), new events and new
\* calls are accepted, and every other unfinished run can take its next step.
C12_DelayBlocksOnlyItsRun ==
    SomeRunSuspended =>
       /\ \A d \in DispatchIds :
             /\ dispatches[d].pc = "find" => ENABLED DispatchFind(d)
             /\ (dispatches[d].pc = "scan" /\ dispatches[d].i > Len(dispatches[d].found))
                   => ENABLED DispatchReturn(d)
             /\ (/\ dispatches[d].pc = "scan"
                 /\ dispatches[d].i <= Len(dispatches[d].found)
                 /\ Len(runs) < MaxRuns)
                   => ENABLED DispatchScan(d)
       /\ Len(dispatches) < MaxDispatches => \A data \in DispatchData : ENABLED DispatchCall(data)
       /\ (/\ Len(runs) < MaxRuns
           /\ Cardinality({r \in RunIds : runs[r].launcher = "direct"}) < MaxCalls)
             => \A id \in AutomationIds, data \in EventData : ENABLED ExecuteCall(id, data)
       /\ \A r \in RunIds : runs[r].pc \notin {"delay", "done"} => ENABLED RunStep(r)

\* A run launched by a dispatch call is suspended, the dispatch call has
\* returned, and a run called after it has finished in success.
C12_Witness ==
    \E r \in RunIds, r2 \in RunIds, d \in DispatchIds :
        /\ runs[r].pc = "delay"
        /\ runs[r].wakeAt > now
        /\ r \in LaunchedBy(d)
        /\ dispatches[d].pc = "returned"
        /\ r2 > r
        /\ runs[r2].pc = "done"
        /\ runs[r2].outcome = "resolved"
        /\ \E e \in RecordsOf(r2) : executions[e].status = "success"

\* The run ended in success: its record is success and its statistics write is done.
EndedInSuccess(r) ==
    /\ runs[r].pc = "done"
    /\ runs[r].outcome = "resolved"
    /\ \E e \in RecordsOf(r) : executions[e].status = "success"

\* The runs of the automation that ended in success.
SuccessfulRuns(a) == {r \in RunIds : runs[r].automationId = a /\ EndedInSuccess(r)}

\* The executionCount a successful run read when it loaded the automation.
LoadedCount(r) == runs[r].automation.executionCount - 1

AllRunsDone == \A r \in RunIds : runs[r].pc = "done"

C14_CountsRunsStarted ==
    \A r \in RunIds :
        (/\ runs[r].pc = "done"
         /\ Created(r)
         /\ crudOps = 0)
            => automations[runs[r].automationId].executionCount >= 1

\* C14 amended: executionCount counts successful runs. The stored count of an
\* automation changes only in the statistics write that ends a run whose
\* record was saved as success, to the count that run loaded plus one; a run
\* that ends in trigger mismatch or in a failure leaves it as it was.
C14_CountChangesOnlyOnSuccess ==
    [][\A a \in AutomationIds :
          (/\ automations[a].exists
           /\ automations'[a].exists
           /\ automations'[a].executionCount # automations[a].executionCount)
             => \E r \in RunIds :
                   /\ runs[r].automationId = a
                   /\ runs[r].pc = "saveStats"
                   /\ runs'[r].pc = "done"
                   /\ runs'[r].outcome = "resolved"
                   /\ executions[runs[r].execution].status = "success"
                   /\ automations'[a].executionCount = runs[r].automation.executionCount + 1]_vars

\* One automation has had a run that ended failed and a run that ended in
\* success; its count is 1.
C14_Witness ==
    \E r1 \in RunIds, r2 \in RunIds :
        /\ runs[r1].automationId = runs[r2].automationId
        /\ runs[r1].pc = "done"
        /\ Created(r1)
        /\ executions[runs[r1].execution].status = "failed"
        /\ EndedInSuccess(r2)
        /\ automations[runs[r1].automationId].exists
        /\ automations[runs[r1].automationId].executionCount = 1

\* C15: the stored executionCount of an automation never decreases, under any
\* interleaving of runs of that automation.
C15_CountNeverDecreases ==
    [][automations'[StatsId].executionCount >= automations[StatsId].executionCount]_vars

\* The first trigger node of the list names a kind with no registered handler.
TriggerUnregistered(nodes) ==
    /\ FindTrigger(nodes) # 0
    /\ nodes[FindTrigger(nodes)].service \notin RegisteredTriggers

\* C16: an automation whose trigger kind is not registered is never silently
\* ignored. A finished executeAutomation run on it was rejected with the
\* handler-not-found error, and a triggerByEvent call that scanned it raised.
C16_UnknownTriggerSurfaced ==
    /\ \A r \in RunIds :
          (/\ runs[r].pc = "done"
           /\ Created(r)
           /\ TriggerUnregistered(runs[r].sortedNodes))
             => /\ runs[r].outcome = "rejected"
                /\ runs[r].error = HandlerNotFoundMessage("trigger",
                                      runs[r].sortedNodes[FindTrigger(runs[r].sortedNodes)].service)
    /\ \A d \in DispatchIds :
          \A k \in 1..Len(dispatches[d].found) :
             (k < dispatches[d].i /\ TriggerUnregistered(dispatches[d].found[k].nodes))
                => dispatches[d].pc = "raised"

\* The run met a configuration defect: its node list has no trigger node, or
\* the loop reached an action node whose kind has no registered handler.
NoTriggerNode(r) == FindTrigger(runs[r].sortedNodes) = 0

UnknownActionReached(r) ==
    /\ runs[r].idx \in 1..Len(runs[r].sortedNodes)
    /\ runs[r].sortedNodes[runs[r].idx].type = "action"
    /\ runs[r].sortedNodes[runs[r].idx].service \notin RegisteredActions

\* The message of the error the defect raises.
DefectMessage(r) ==
    IF NoTriggerNode(r) THEN "No trigger node found"
    ELSE HandlerNotFoundMessage("action", runs[r].sortedNodes[runs[r].idx].service)

\* C17 as stated: a run that met a configuration defect raised to its caller
\* and its execution record was not moved to failed.
C17_DefectNotRecordedAsFailed ==
    \A r \in RunIds :
        (/\ runs[r].pc = "done"
         /\ Created(r)
         /\ (NoTriggerNode(r) \/ UnknownActionReached(r)))
            => /\ runs[r].outcome = "rejected"
               /\ executions[runs[r].execution].status # "failed"

\* C17 amended: a run that met a configuration defect raised to its caller
\* and its execution record was moved to failed with the error's message.
C17_DefectRaisesAndIsRecordedFailed ==
    \A r \in RunIds :
        (/\ runs[r].pc = "done"
         /\ Created(r)
         /\ (NoTriggerNode(r) \/ UnknownActionReached(r)))
            => /\ runs[r].outcome = "rejected"
               /\ runs[r].error = DefectMessage(r)
               /\ executions[runs[r].execution].status = "failed"
               /\ executions[runs[r].execution].errorMessage = DefectMessage(r)

\* One run has met an unregistered action kind after an action that ran, and
\* another has met a node list without a trigger node.
C17_Witness ==
    \E r1 \in RunIds, r2 \in RunIds :
        /\ runs[r1].pc = "done"
        /\ Created(r1)
        /\ UnknownActionReached(r1)
        /\ Len(runs[r1].actionResults) = 1
        /\ executions[runs[r1].execution].errorMessage = "Action handler not found: unknown_action"
        /\ runs[r2].pc = "done"
        /\ Created(r2)
        /\ NoTriggerNode(r2)
        /\ executions[runs[r2].execution].errorMessage = "No trigger node found"

\* C18: a network failure inside an action handler is surfaced by raising. A
\* failed HTTP request of keplero_api_call is the last thing its run did: no
\* later node starts, the run goes to its catch block and ends rejected with
\* a failed record.
C18_NetworkFailureFailsRun ==
    \A r \in RunIds :
       \A i \in 1..Len(runs[r].actionResults) :
          (/\ runs[r].actionResults[i].service = "keplero_api_call"
           /\ ~runs[r].actionResults[i].result.flag)
             => /\ i = Len(runs[r].actionResults)
                /\ runs[r].pc \in {"catch", "done"}
                /\ runs[r].pc = "done" =>
                      /\ runs[r].outcome = "rejected"
                      /\ executions[runs[r].execution].status = "failed"

\* C19: a persisted execution record has errorMessage set if and only if its
\* status is failed.
C19_ErrorMessageIffFailed ==
    \A e \in 1..Len(executions) :
        executions[e].errorMessage # "none" <=> executions[e].status = "failed"

\* A failed record with the message of a handler's error next to a success
\* record without one.
C19_Witness ==
    \E e1 \in 1..Len(executions), e2 \in 1..Len(executions) :
        /\ executions[e1].status = "failed"
        /\ executions[e1].errorMessage = "Contact not found or phone number missing"
        /\ executions[e2].status = "success"
        /\ executions[e2].errorMessage = "none"

\* C20: the engine writes nothing of an automation but its run statistics. A
\* step that is not an owner edit leaves name, isActive and the stored nodes of
\* every automation as they were.
C20_EngineLeavesDefinitionAlone ==
    [][crudOps' = crudOps =>
          \A a \in AutomationIds :
             /\ automations'[a].name = automations[a].name
             /\ automations'[a].isActive = automations[a].isActive
             /\ automations'[a].nodes = automations[a].nodes]_vars

MaxLiveRuns == 2      \* executeAutomation calls whose ends are awaited

\* MaxLiveRuns calls of executeAutomation(StatsId, data) have been made on an
\* active automation with a delay node or without one.
InitLive ==
    /\ automations \in
          { [a \in AutomationIds |->
                [exists |-> TRUE, isActive |-> TRUE,
                 name |-> IF a = 2 THEN "A2" ELSE "A1",
                 nodes |-> IF a = 2 THEN TagPipeline ELSE nl, executionCount |-> 0]] :
            nl \in {DelayPipeline, TagPipeline} }
    /\ contacts = [c \in {1, 2} |-> [phone |-> (c = 1), tags |-> << >>]]
    /\ executions = << >>
    /\ runs \in [1..MaxLiveRuns -> {NewRun(StatsId, data, "direct", 0) : data \in EventData}]
    /\ dispatches = << >>
    /\ crudOps = 0
    /\ now = 0

\* The calls run to their ends while timers fire and the owner may delete the
\* automation.
NextLive ==
    \/ \E r \in 1..Len(runs) : Load(r)
    \/ \E r \in 1..Len(runs) : Create(r)
    \/ \E r \in 1..Len(runs) : ValidateTrigger(r)
    \/ \E r \in 1..Len(runs) : SaveMismatch(r)
    \/ \E r \in 1..Len(runs) : DelayElapsed(r)
    \/ \E r \in 1..Len(runs) : FinishAction(r)
    \/ \E r \in 1..Len(runs) : SaveSuccess(r)
    \/ \E r \in 1..Len(runs) : SaveStats(r)
    \/ \E r \in 1..Len(runs) : Catch(r)
    \/ Tick
    \/ \E a \in EditedIds : CrudDelete(a)

\* Every run keeps taking its steps (handlers return or raise, saves complete)
\* and every timer that is due fires.
RunFairness ==
    /\ \A r \in 1..MaxLiveRuns : WF_vars(RunStep(r) \/ DelayElapsed(r))
    /\ WF_vars(Tick)

\* The engine with runs and timers that are never starved.
FairSpec == InitLive /\ [][NextLive]_vars /\ RunFairness

\* C21: every execution record created in status pending eventually reaches
\* status success or failed, also when its run suspends at a delay node.
C21_PendingReachesTerminal ==
    \A e \in 1..MaxLiveRuns :
        (Len(executions) >= e)
            ~> (Len(executions) >= e /\ executions[e].status \in {"success", "failed"})

\* A record whose run went through a delay node has reached success.
C21_Witness ==
    \E r \in RunIds :
        /\ Created(r)
        /\ Len(runs[r].waits) = 1
        /\ executions[runs[r].execution].status = "success"

\* C22: for an active automation [trigger contact-created, action add_tag t]
\* that the owner leaves alone, a dispatched contact-created event for contact
\* c ends in exactly one execution record for that automation, in status
\* success with one actionData entry reporting t as applied, and c's tags
\* contain t.
C22_TagEventEndsInOneSuccess ==
    \A d \in DispatchIds :
       \A k \in 1..Len(dispatches[d].found) :
          (/\ dispatches[d].pc = "returned"
           /\ dispatches[d].eventData.event = "contact_created"
           /\ dispatches[d].found[k].nodes = TagPipeline
           /\ crudOps = 0
           /\ \A r \in LaunchedBy(d) : runs[r].pc = "done")
             => LET R == {r \in LaunchedBy(d) : runs[r].automationId = dispatches[d].found[k].id}
                    c == dispatches[d].eventData.contactId
                IN /\ Cardinality(R) = 1
                   /\ \A r \in R :
                         /\ Cardinality(RecordsOf(r)) = 1
                         /\ \A e \in RecordsOf(r) :
                               /\ executions[e].automationId = dispatches[d].found[k].id
                               /\ executions[e].status = "success"
                               /\ executions[e].actionData =
                                     << [nodeId |-> 2, service |-> "add_tag",
                                         result |-> [flag |-> TRUE, value |-> "vip"]] >>
                   /\ \E i \in 1..Len(contacts[c].tags) : contacts[c].tags[i] = "vip"

\* The event for contact 1 was dispatched, the tag automation was launched and
\* its run has ended with the tag stored.
C22_Witness ==
    \E d \in DispatchIds, r \in RunIds :
        /\ dispatches[d].pc = "returned"
        /\ dispatches[d].eventData.contactId = 1
        /\ r \in LaunchedBy(d)
        /\ runs[r].automation.nodes = TagPipeline
        /\ runs[r].pc = "done"
        /\ crudOps = 0
        /\ \A r2 \in LaunchedBy(d) : runs[r2].pc = "done"
        /\ executions[runs[r].execution].status = "success"
        /\ contacts[1].tags # << >>

\* C23: every call that passes the exists-and-active check creates exactly one
\* execution record, pending, referencing the automation and holding the
\* supplied triggerData, before the trigger is validated and before any node
\* runs; no step removes a record or changes its automationId or triggerData.
C23_OnePendingRecordPerAdmittedCall ==
    [][/\ Len(executions') >= Len(executions)
       /\ \A e \in 1..Len(executions) :
             /\ executions'[e].automationId = executions[e].automationId
             /\ executions'[e].triggerData = executions[e].triggerData
             /\ executions'[e].run = executions[e].run
       /\ \A e \in (Len(executions) + 1)..Len(executions') :
             LET r == executions'[e].run IN
             /\ e = Len(executions) + 1
             /\ runs[r].pc = "create"
             /\ RecordsOf(r) = {}
             /\ runs[r].sortedNodes = << >>
             /\ runs[r].log = << >>
             /\ runs[r].actionResults = << >>
             /\ executions'[e].status = "pending"
             /\ executions'[e].automationId = runs[r].automationId
             /\ executions'[e].triggerData = runs[r].triggerData
             /\ executions'[e].actionData = << >>
       /\ \A r \in 1..Len(runs) :
             (runs[r].pc = "create" /\ runs'[r].pc # "create")
                => /\ Len(executions') = Len(executions) + 1
                   /\ executions'[Len(executions')].run = r
                   /\ runs'[r].pc = "validate"
       /\ \A r \in 1..Len(runs) :
             (runs[r].pc = "load" /\ runs'[r].pc # "load")
                => runs'[r].pc = IF NotFoundOrInactive(FindById(runs[r].automationId))
                                 THEN "done" ELSE "create"]_vars

\* A call has passed the check and created its pending record; its trigger is
\* not validated yet.
C23_Witness ==
    \E r \in RunIds :
        /\ runs[r].pc = "validate"
        /\ Cardinality(RecordsOf(r)) = 1
        /\ executions[runs[r].execution].status = "pending"
        /\ executions[runs[r].execution].triggerData = runs[r].triggerData
        /\ executions[runs[r].execution].automationId = runs[r].automationId

\* The trigger node a run validated.
ValidatedTrigger(r) == runs[r].sortedNodes[FindTrigger(runs[r].sortedNodes)]

\* C24: the result of a registered trigger's validate is determined by the
\* kind, the config and the payload alone: two runs that validated the same
\* trigger node against the same payload got the same result, whenever each
\* of them did it.
C24_ValidateDependsOnInputsOnly ==
    \A r1 \in RunIds, r2 \in RunIds :
        (/\ runs[r1].validated # "none"
         /\ runs[r2].validated # "none"
         /\ ValidatedTrigger(r1) = ValidatedTrigger(r2)
         /\ runs[r1].triggerData = runs[r2].triggerData)
            => runs[r1].validated = runs[r2].validated

\* The dispatcher cannot evaluate the scanned automation: it has no trigger
\* node, or its trigger's validate raises on the payload.
Malformed(nodes, data) ==
    \/ FindTrigger(nodes) = 0
    \/ /\ nodes[FindTrigger(nodes)].service \in RegisteredTriggers
       /\ TriggerValidateRaises(nodes[FindTrigger(nodes)].service,
                                nodes[FindTrigger(nodes)].config, data)

\* C25: an active automation without a trigger node, or whose validation
\* raises, is skipped without raising out of triggerByEvent: the call never
\* raises, it goes on to every automation after the skipped one, and those
\* that match are launched.
C25_MalformedAutomationIsSkipped ==
    \A d \in DispatchIds :
        /\ dispatches[d].pc # "raised"
        /\ \A k \in 1..Len(dispatches[d].found) :
              (k < dispatches[d].i /\ Malformed(dispatches[d].found[k].nodes, dispatches[d].eventData))
                 => /\ \A r \in LaunchedBy(d) : runs[r].automationId # dispatches[d].found[k].id
                    /\ \A j \in (k + 1)..Len(dispatches[d].found) :
                          (/\ j < dispatches[d].i
                           /\ EventSatisfiesTrigger(dispatches[d].found[j].nodes,
                                                    dispatches[d].eventData))
                             => \E r \in LaunchedBy(d) :
                                   runs[r].automationId = dispatches[d].found[j].id
        /\ (dispatches[d].pc = "returned" /\ dispatches[d].eventData = NullData)
              => dispatches[d].results = << >>

\* The scan skipped an automation without a trigger node and launched the
\* automation after it.
C25_Witness ==
    \E d \in DispatchIds :
        /\ dispatches[d].pc = "returned"
        /\ Len(dispatches[d].found) = 2
        /\ FindTrigger(dispatches[d].found[1].nodes) = 0
        /\ \E r \in LaunchedBy(d) : runs[r].automationId = dispatches[d].found[2].id
        /\ Len(dispatches[d].results) = 1

\* The runs testAutomation started that have reported.
TestReports == {r \in RunIds : runs[r].launcher = "test" /\ runs[r].report \in {"success", "failed"}}

\* C26: testAutomation reports 'success' only if the run it started ended with
\* its record in status success; when the record ended failed, the trigger
\* mismatch included, it reports 'failed'.
C26_TestReportsRecordStatus ==
    \A r \in TestReports :
        /\ runs[r].report = "success" =>
              /\ Created(r)
              /\ executions[runs[r].execution].status = "success"
        /\ (Created(r) /\ executions[runs[r].execution].status = "failed")
              => runs[r].report = "failed"

\* The node list the dispatcher scanned for the automation of a run it launched.
ScannedNodes(r) ==
    LET d == runs[r].parent
        k == CHOOSE j \in 1..Len(dispatches[d].found) :
                 dispatches[d].found[j].id = runs[r].automationId
    IN dispatches[d].found[k].nodes

\* The list has exactly one trigger node.
OneTrigger(nodes) == Cardinality({k \in 1..Len(nodes) : nodes[k].type = "trigger"}) = 1

\* The run was launched by a dispatch call and has validated a node list with
\* one trigger node of a kind that does not read the clock.
LaunchedAndValidated(r) ==
    /\ runs[r].launcher = "dispatch"
    /\ runs[r].validated # "none"
    /\ OneTrigger(runs[r].automation.nodes)
    /\ ValidatedTrigger(r).service # "cart_abandoned"

\* C27 as stated: such a run never ends in trigger mismatch, also when the
\* automation is edited between the dispatcher's scan and the run's load.
C27_LaunchedRunNeverMismatches ==
    \A r \in RunIds : LaunchedAndValidated(r) => runs[r].validated = "valid"

\* C27 amended: such a run does not end in trigger mismatch when the trigger
\* node it loaded is the one the dispatcher evaluated, that is, when the
\* trigger was not edited between the scan and the load.
C27_LaunchedRunAgreesOnSameTrigger ==
    \A r \in RunIds :
        (/\ LaunchedAndValidated(r)
         /\ ValidatedTrigger(r) = ScannedNodes(r)[FindTrigger(ScannedNodes(r))])
            => runs[r].validated = "valid"

\* A launched run has validated the trigger the dispatcher evaluated, out of a
\* stored list that is not in position order.
C27_Witness ==
    \E r \in RunIds :
        /\ LaunchedAndValidated(r)
        /\ runs[r].automation.nodes = ShuffledPipeline
        /\ ScannedNodes(r) = ShuffledPipeline
        /\ runs[r].validated = "valid"

\* The delay and action nodes of a list, in list order.
ExecutableNodes(nodes) == SelectSeq(nodes, LAMBDA n : n.type \in {"delay", "action"})

\* The nodes a run has started, in the order it started them.
StartedNodes(r) == SelectSeq(runs[r].log, LAMBDA l : l.ev = "start")

\* C28: a run executes the node list it loaded. Whatever the owner does to the
\* automation meanwhile, the run works on the sorted copy of the list it
\* loaded, the nodes it has started are the first delay and action nodes of
\* that list, a run that got through has started all of them, and no run is
\* ended for the automation having become inactive or absent after its load.
C28_RunExecutesLoadedList ==
    \A r \in RunIds :
        runs[r].validated = "valid" =>
           LET loaded == SortByPosition(runs[r].automation.nodes)
               exec == ExecutableNodes(loaded)
               started == StartedNodes(r)
           IN /\ runs[r].sortedNodes = loaded
              /\ Len(started) <= Len(exec)
              /\ \A i \in 1..Len(started) : started[i].node = exec[i].id
              /\ runs[r].pc \in {"saveSuccess", "saveStats"} => Len(started) = Len(exec)
              /\ runs[r].pc \in {"delay", "action"} =>
                    /\ started # << >>
                    /\ runs[r].sortedNodes[runs[r].idx].id = started[Len(started)].node
              /\ runs[r].error # "Automation not found or inactive"

\* The automation was deleted while a run waited in its delay node; the run
\* has gone on to the action behind the delay.
C28_Witness ==
    \E r \in RunIds :
        /\ runs[r].pc = "action"
        /\ Len(runs[r].waits) = 1
        /\ runs[r].automation.nodes = DelayPipeline
        /\ ~automations[runs[r].automationId].exists

\* The runs that have passed their keplero_create_contact node, by return or
\* by raise.
PassedCreateContact(r) ==
    \E i \in 1..Len(runs[r].log) :
        /\ runs[r].log[i].ev \in {"end", "raise"}
        /\ runs[r].log[i].node = 2
        /\ runs[r].automation.nodes = CreateContactPipeline("ann@example.com")

\* C29: keplero_create_contact never creates a second contact with an email
\* an existing contact has. At most one contact has the configured email, and
\* every action that has finished returned a result: success with the id of
\* the contact it created, or success false with the id of the only contact
\* that has the email.
C29_OneContactPerEmail ==
    /\ Cardinality(ContactsWithEmail("ann@example.com")) <= 1
    /\ \A r \in RunIds :
          PassedCreateContact(r) =>
             /\ runs[r].actionResults # << >>
             /\ LET res == runs[r].actionResults[Len(runs[r].actionResults)].result IN
                /\ res.contactId \in ContactsWithEmail("ann@example.com")
                /\ res.flag \/ res.value = "Contact already exists"

\* Node lists whose trigger node is not the node of lowest position.
DelayFirstPipeline ==
    << DelayNode(1, 1, 1, "minutes"),
       TriggerNode(2, 2, "keplero_contact_created", "none"),
       ActionNode(3, 3, "send_email", "none") >>

TriggerLastPipeline ==
    << TriggerNode(3, 3, "keplero_contact_created", "none"),
       ActionNode(2, 2, "send_email", "none"),
       ActionNode(1, 1, "add_tag", "vip") >>

\* Runs of one automation whose trigger node is not first.
InitPositions ==
    /\ automations \in
          { [a \in AutomationIds |->
                [exists |-> TRUE, isActive |-> TRUE,
                 name |-> IF a = 2 THEN "A2" ELSE "A1",
                 nodes |-> IF a = 2 THEN TagPipeline ELSE nl, executionCount |-> 0]] :
            nl \in {DelayFirstPipeline, TriggerLastPipeline} }
    /\ contacts = [c \in {1, 2} |-> [phone |-> (c = 1), tags |-> << >>]]
    /\ executions = << >>
    /\ runs \in [1..MaxLiveRuns -> {NewRun(StatsId, data, "direct", 0) : data \in EventData}]
    /\ dispatches = << >>
    /\ crudOps = 0
    /\ now = 0

SpecPositions == InitPositions /\ [][NextLive]_vars

\* A run has begun a delay or invoked an action handler.
NodeWorkBegun(r) ==
    \/ runs[r].log # << >>
    \/ runs[r].waits # << >>
    \/ runs[r].actionResults # << >>
    \/ runs[r].pc \in {"delay", "action"}

\* C30: trigger validation precedes all other node work, whatever the
\* positions. A run that has begun a delay or an action has validated its
\* trigger; the first node it starts is the first delay or action node of the
\* sorted list, also when that node's position is lower than the trigger's;
\* and a run that got through the loop has started every delay and action
\* node of the list.
C30_ValidationPrecedesAllNodeWork ==
    \A r \in RunIds :
        /\ NodeWorkBegun(r) => runs[r].validated = "valid"
        /\ StartedNodes(r) # << >> =>
              StartedNodes(r)[1].node = ExecutableNodes(runs[r].sortedNodes)[1].id
        /\ runs[r].pc \in {"saveSuccess", "saveStats"} =>
              \A i \in 1..Len(runs[r].sortedNodes) :
                 runs[r].sortedNodes[i].type \in {"delay", "action"} =>
                    \E j \in 1..Len(runs[r].log) :
                       /\ runs[r].log[j].ev = "start"
                       /\ runs[r].log[j].node = runs[r].sortedNodes[i].id

\* A run whose delay node has a lower position than its trigger node got
\* through: it waited out the delay and ran the action.
C30_Witness ==
    \E r \in RunIds :
        /\ runs[r].automation.nodes = DelayFirstPipeline
        /\ runs[r].pc = "saveSuccess"
        /\ Len(runs[r].waits) = 1
        /\ Len(runs[r].actionResults) = 1

====
